---- MODULE Spec2Model ----
(***************************************************************************)
(* Model of parse_bys_file (src/yuwell_analyzer.py): the marker scan over  *)
(* a byte buffer, the decoding of one 30-byte record window, the           *)
(* timestamp validation through datetime.strptime, and the I/O wrapper     *)
(* (existence check, read, CSV write, catch-all handler).                  *)
(*                                                                         *)
(* Bytes are naturals 0..255, buffers are sequences of bytes addressed     *)
(* 0-based through Byte.  Python strings are sequences of one-character    *)
(* strings.                                                                *)
(***************************************************************************)
EXTENDS Integers, Sequences, FiniteSets, TLC

VARIABLES file, outputCsv, pc, content, offset, records, written, err,
          result, raw, tsStr

vars == <<file, outputCsv, pc, content, offset, records, written, err,
          result, raw, tsStr>>

(***************************************************************************)
(* Bounds of the model and constants of the program.                       *)
(***************************************************************************)
MaxLen == 60

MaxMarkers == 3

RecordSize == 30

MarkerLen == 4

magic == <<40, 70, 150, 40>>

InvalidDate == <<"I", "n", "v", "a", "l", "i", "d", " ", "D", "a", "t", "e">>

(***************************************************************************)
(* Bytes and slices.                                                       *)
(***************************************************************************)
Byte(buf, i) == buf[i + 1]

Slice(buf, a, b) == SubSeq(buf, a + 1, b)

\* The one element of a singleton; Only({e}) evaluates e once where it is
\* written, so a value used several times is computed a single time.
Only(S) == CHOOSE x \in S : TRUE

Min(S) == CHOOSE x \in S : \A y \in S : x <= y

Max(S) == CHOOSE x \in S : \A y \in S : x >= y

(***************************************************************************)
(* String formatting: f"{n:02d}", f"{n:X}", f"{n:04X}".                    *)
(***************************************************************************)
DigitChars == <<"0", "1", "2", "3", "4", "5", "6", "7", "8", "9",
                "A", "B", "C", "D", "E", "F">>

RECURSIVE Numeral(_, _)
Numeral(n, base) ==
    IF n < base THEN <<DigitChars[n + 1]>>
    ELSE Numeral(n \div base, base) \o <<DigitChars[(n % base) + 1]>>

RECURSIVE PadLeft(_, _)
PadLeft(s, width) == IF Len(s) >= width THEN s ELSE PadLeft(<<"0">> \o s, width)

Fmt02d(n) == PadLeft(Numeral(n, 10), 2)

FmtX(n) == Numeral(n, 16)

Fmt04X(n) == PadLeft(Numeral(n, 16), 4)

(***************************************************************************)
(* datetime.strptime(s, '%Y-%m-%d %H:%M:%S'): the format's regular         *)
(* expression, matched with backtracking over the alternatives in their    *)
(* order, then the checks of the datetime constructor.                     *)
(***************************************************************************)
Pattern == <<"Y", "-", "m", "-", "d", " ", "H", ":", "M", ":", "S">>

IsDigit(c) == c \in {"0", "1", "2", "3", "4", "5", "6", "7", "8", "9"}

DigitVal(c) == CHOOSE d \in 0..9 : DigitChars[d + 1] = c

CharAt(s, p) == IF p >= 1 /\ p <= Len(s) THEN s[p] ELSE ""

InRange(c, lo, hi) == IsDigit(c) /\ DigitVal(c) >= lo /\ DigitVal(c) <= hi

Opt(cond, n) == IF cond THEN <<n>> ELSE <<>>

RECURSIVE SpaceRun(_, _)
SpaceRun(s, p) == IF CharAt(s, p) = " " THEN 1 + SpaceRun(s, p + 1) ELSE 0

RECURSIVE CountDown(_)
CountDown(n) == IF n <= 0 THEN <<>> ELSE <<n>> \o CountDown(n - 1)

\* The lengths the element e can match at position p, in the order the
\* regular expression tries them.
Alts(e, s, p) ==
    LET c1 == CharAt(s, p)
        c2 == CharAt(s, p + 1)
    IN CASE e = "Y" ->
              Opt(\A i \in 0..3 : IsDigit(CharAt(s, p + i)), 4)
         [] e = "m" ->
              Opt(c1 = "1" /\ InRange(c2, 0, 2), 2)
              \o Opt(c1 = "0" /\ InRange(c2, 1, 9), 2)
              \o Opt(InRange(c1, 1, 9), 1)
         [] e = "d" ->
              Opt(c1 = "3" /\ InRange(c2, 0, 1), 2)
              \o Opt(InRange(c1, 1, 2) /\ IsDigit(c2), 2)
              \o Opt(c1 = "0" /\ InRange(c2, 1, 9), 2)
              \o Opt(InRange(c1, 1, 9), 1)
              \o Opt(c1 = " " /\ InRange(c2, 1, 9), 2)
         [] e = "H" ->
              Opt(c1 = "2" /\ InRange(c2, 0, 3), 2)
              \o Opt(InRange(c1, 0, 1) /\ IsDigit(c2), 2)
              \o Opt(IsDigit(c1), 1)
         [] e = "M" ->
              Opt(InRange(c1, 0, 5) /\ IsDigit(c2), 2)
              \o Opt(IsDigit(c1), 1)
         [] e = "S" ->
              Opt(c1 = "6" /\ InRange(c2, 0, 1), 2)
              \o Opt(InRange(c1, 0, 5) /\ IsDigit(c2), 2)
              \o Opt(IsDigit(c1), 1)
         [] e = " " -> CountDown(SpaceRun(s, p))
         [] OTHER -> Opt(c1 = e, 1)

NoMatch == [ok |-> FALSE, lens |-> <<>>, end |-> 0]

RECURSIVE Match(_, _, _), Try(_, _, _, _)
Match(s, p, k) ==
    IF k > Len(Pattern) THEN [ok |-> TRUE, lens |-> <<>>, end |-> p]
    ELSE Only({Try(s, p, k, alts) : alts \in {Alts(Pattern[k], s, p)}})

Try(s, p, k, alts) ==
    IF alts = <<>> THEN NoMatch
    ELSE Only({IF r.ok
               THEN [ok |-> TRUE, lens |-> <<Head(alts)>> \o r.lens, end |-> r.end]
               ELSE Try(s, p, k, Tail(alts)) :
               r \in {Match(s, p + Head(alts), k + 1)}})

\* int(text): the decimal value of the first n characters, blanks ignored.
RECURSIVE ParseIntTo(_, _)
ParseIntTo(s, n) ==
    IF n = 0 THEN 0
    ELSE IF s[n] = " " THEN ParseIntTo(s, n - 1)
    ELSE 10 * ParseIntTo(s, n - 1) + DigitVal(s[n])

ParseInt(s) == Only({ParseIntTo(text, Len(text)) : text \in {s}})

RECURSIVE Sum(_, _)
Sum(q, n) == IF n = 0 THEN 0 ELSE q[n] + Sum(q, n - 1)

\* The text of the k-th element of Pattern in a successful match.
Group(s, m, k) ==
    LET start == 1 + Sum(m.lens, k - 1)
    IN SubSeq(s, start, start + m.lens[k] - 1)

IsLeap(y) == (y % 4 = 0 /\ y % 100 # 0) \/ y % 400 = 0

DaysInMonthAll31(y, m) == 31

DaysInMonth(y, m) ==
    IF m = 2 THEN (IF IsLeap(y) THEN 29 ELSE 28)
    ELSE IF m \in {4, 6, 9, 11} THEN 30 ELSE 31

NotATime == [ok |-> FALSE, year |-> 0, month |-> 0, day |-> 0,
             hour |-> 0, minute |-> 0, second |-> 0]

\* The checks of the datetime constructor on the parsed fields.
CheckFields(t) ==
    IF t.year < 1 \/ t.day > DaysInMonth(t.year, t.month) \/ t.second > 59
    THEN NotATime ELSE t

\* ok = FALSE stands for the ValueError strptime raises.
Strptime(s) ==
    Only({IF ~m.ok THEN NotATime
          ELSE IF m.end # Len(s) + 1 THEN NotATime
          ELSE Only({CheckFields(t) :
                     t \in {[ok |-> TRUE,
                             year |-> ParseInt(Group(s, m, 1)),
                             month |-> ParseInt(Group(s, m, 3)),
                             day |-> ParseInt(Group(s, m, 5)),
                             hour |-> ParseInt(Group(s, m, 7)),
                             minute |-> ParseInt(Group(s, m, 9)),
                             second |-> ParseInt(Group(s, m, 11))]}}) :
          m \in {Match(s, 1, 1)}})

\* The string built from the six raw bytes of a timestamp.
TsString(r) ==
    <<"2", "0">> \o Fmt02d(r[1]) \o <<"-">> \o Fmt02d(r[2]) \o <<"-">>
    \o Fmt02d(r[3]) \o <<" ">> \o Fmt02d(r[4]) \o <<":">> \o Fmt02d(r[5])
    \o <<":">> \o Fmt02d(r[6])

DecodeTimestamp(r) ==
    Only({IF Strptime(ts_str).ok THEN ts_str ELSE InvalidDate :
          ts_str \in {TsString(ts_raw) : ts_raw \in {r}}})

(***************************************************************************)
(* Timestamp decoding on its own: the six raw bytes are drawn from         *)
(* samples around every boundary of the calendar and clock ranges.         *)
(***************************************************************************)
YearBytes == {0, 1, 4, 23, 24, 99, 100, 104, 200, 255}

MonthBytes == {0, 1, 2, 4, 9, 10, 12, 13, 100, 255}

DayBytes == {0, 1, 9, 10, 28, 29, 30, 31, 32, 40, 100, 255}

HourBytes == {0, 9, 10, 23, 24, 100, 255}

MinuteBytes == {0, 9, 59, 60, 100, 255}

SecondBytes == {0, 9, 59, 60, 61, 62, 100, 255}

InitTs ==
    /\ raw \in {<<yy, mm, dd, hh, mi, ss>> :
                   yy \in YearBytes, mm \in MonthBytes, dd \in DayBytes,
                   hh \in HourBytes, mi \in MinuteBytes, ss \in SecondBytes}
    /\ tsStr = <<>>
    /\ pc = "ts"
    /\ file = <<>>
    /\ outputCsv = FALSE
    /\ content = <<>>
    /\ offset = 0
    /\ records = <<>>
    /\ written = FALSE
    /\ err = "none"
    /\ result = <<>>

DecodeTs ==
    /\ pc = "ts"
    /\ tsStr' = DecodeTimestamp(raw)
    /\ pc' = "tsdone"
    /\ UNCHANGED <<file, outputCsv, content, offset, records, written, err,
                   result, raw>>

NextTs == DecodeTs

SpecTs == InitTs /\ [][NextTs]_vars

(***************************************************************************)
(* The marker scan and the record decoder.                                 *)
(***************************************************************************)
MarkerAt(buf, i) ==
    /\ i >= 0
    /\ i + Len(magic) <= Len(buf)
    /\ \A k \in 1..Len(magic) : Byte(buf, i + k - 1) = magic[k]

FirstByteAt(buf, i) == i >= 0 /\ i < Len(buf) /\ Byte(buf, i) = magic[1]

\* content.find(magic, start) with only the first marker byte compared.
FindFirstByte(buf, start) ==
    LET hits == {i \in start..(Len(buf) - 1) : FirstByteAt(buf, i)}
    IN IF hits = {} THEN -1 ELSE Min(hits)

\* content.find(magic, start)
Find(buf, start) ==
    LET hits == {i \in start..(Len(buf) - Len(magic)) : MarkerAt(buf, i)}
    IN IF hits = {} THEN -1 ELSE Min(hits)

TruncatedOffByOne(buf, idx) == idx + RecordSize >= Len(buf)

Truncated(buf, idx) == idx + RecordSize > Len(buf)

AdvanceWholeRecord(idx) == idx + RecordSize

AdvanceNowhere(idx) == idx

Advance(idx) == idx + MarkerLen

\* struct.unpack('>H', two bytes)
BE16(buf, i) == Byte(buf, i) * 256 + Byte(buf, i + 1)

\* The record built from the window record_bytes found at idx.
BuildRecord(record_bytes, idx) ==
    LET data_values == [k \in 1..6 |-> BE16(record_bytes, 4 + 2 * (k - 1))]
        ts1_raw == Slice(record_bytes, 16, 22)
        ts2_raw == Slice(record_bytes, 22, 28)
        spacer == BE16(record_bytes, 28)
    IN [Offset |-> <<"0", "x">> \o FmtX(idx),
        StartTime |-> DecodeTimestamp(ts1_raw),
        EndTime |-> DecodeTimestamp(ts2_raw),
        Duration |-> data_values[6],
        PressureRaw |-> data_values[4],
        Val1 |-> data_values[1],
        Val2 |-> data_values[2],
        Val3 |-> data_values[3],
        Val4 |-> data_values[5],
        Spacer |-> <<"0", "x">> \o Fmt04X(spacer)]

ParseRecord(buf, idx) ==
    Only({BuildRecord(record_bytes, i) :
          record_bytes \in {Slice(buf, idx, idx + RecordSize)}, i \in {idx}})

\* One iteration with the new record put in front of the list.
ScanStepPrepend(buf, off, recs) ==
    Only({IF idx = -1 \/ Truncated(buf, idx)
       THEN [offset |-> off, records |-> recs, brk |-> TRUE]
       ELSE [offset |-> Advance(idx),
             records |-> <<ParseRecord(buf, idx)>> \o recs,
             brk |-> FALSE] :
          idx \in {Find(buf, off)}})

\* One iteration that leaves the loop on a timestamp that does not decode.
ScanStepStopOnInvalid(buf, off, recs) ==
    Only({IF idx = -1 \/ Truncated(buf, idx)
       THEN [offset |-> off, records |-> recs, brk |-> TRUE]
       ELSE IF InvalidDate \in {ParseRecord(buf, idx).StartTime,
                                ParseRecord(buf, idx).EndTime}
       THEN [offset |-> off, records |-> recs, brk |-> TRUE]
       ELSE [offset |-> Advance(idx),
             records |-> Append(recs, ParseRecord(buf, idx)),
             brk |-> FALSE] :
          idx \in {Find(buf, off)}})

\* One iteration of the while loop: brk says that it left the loop.
ScanStep(buf, off, recs) ==
    Only({IF idx = -1
       THEN [offset |-> off, records |-> recs, brk |-> TRUE]
       ELSE IF Truncated(buf, idx)
       THEN [offset |-> off, records |-> recs, brk |-> TRUE]
       ELSE [offset |-> Advance(idx),
             records |-> Append(recs, ParseRecord(buf, idx)),
             brk |-> FALSE] :
          idx \in {Find(buf, off)}})

\* The whole loop, from a cursor and the records collected so far.
RECURSIVE ScanFrom(_, _, _)
ScanFrom(buf, off, recs) ==
    Only({IF s.brk THEN s.records ELSE ScanFrom(buf, s.offset, s.records) :
          s \in {ScanStep(buf, off, recs)}})

HandlerKeepsRecords(recs) == recs

\* except Exception: return []
Handler(recs) == <<>>

(***************************************************************************)
(* The files parse_bys_file is run on.  A file is a length, a layout of    *)
(* marker positions (the first at 0, then the gaps to the next ones) and    *)
(* the twelve timestamp bytes of its windows; every other byte of a window *)
(* is its index in the window, every byte outside a window is 0.  Markers  *)
(* are written in position order, so a gap below 4 overwrites the tail of  *)
(* the previous marker.                                                    *)
(***************************************************************************)
Gaps == {1, 3, 4, 27, 30}

TsPairs == {<<24, 1, 15, 8, 30, 0, 24, 1, 15, 9, 0, 0>>,
            <<24, 2, 30, 8, 30, 0, 100, 1, 1, 0, 0, 0>>}

GapSeqs == UNION {[1..n -> Gaps] : n \in 0..(MaxMarkers - 1)}

RECURSIVE Positions(_, _)
Positions(first, gaps) ==
    IF gaps = <<>> THEN <<first>>
    ELSE <<first>> \o Positions(first + Head(gaps), Tail(gaps))

Layouts ==
    IF MaxMarkers = 0 THEN {<<>>}
    ELSE {<<>>} \cup {Positions(0, g) : g \in GapSeqs}

BuildByte(i, pos, ts) ==
    LET inMarker == {k \in 1..Len(pos) : pos[k] <= i /\ i < pos[k] + Len(magic)}
        inWindow == {k \in 1..Len(pos) : pos[k] <= i /\ i < pos[k] + RecordSize}
    IN IF inMarker # {} THEN magic[i - pos[Max(inMarker)] + 1]
       ELSE IF inWindow = {} THEN 0
       ELSE LET r == i - pos[Max(inWindow)]
            IN IF r >= 16 /\ r < 28 THEN ts[r - 15] ELSE r

Build(len, pos, ts) == [i \in 1..len |-> BuildByte(i - 1, pos, ts)]

Files == {Build(len, pos, ts) : len \in 0..MaxLen, pos \in Layouts, ts \in TsPairs}

(***************************************************************************)
(* parse_bys_file as a state machine.                                      *)
(***************************************************************************)
Init ==
    /\ file = <<>>
    /\ outputCsv = FALSE
    /\ pc = "idle"
    /\ content = <<>>
    /\ offset = 0
    /\ records = <<>>
    /\ written = FALSE
    /\ err = "none"
    /\ result = <<>>
    /\ raw = <<>>
    /\ tsStr = <<>>

\* parse_bys_file(filename, output_csv) is called on a file of Files.
Call ==
    /\ pc = "idle"
    /\ file' \in Files
    /\ outputCsv' \in BOOLEAN
    /\ pc' = "start"
    /\ UNCHANGED <<content, offset, records, written, err, result, raw, tsStr>>

\* if not os.path.exists(filename): return []
CheckExists ==
    /\ pc = "start"
    /\ \E exists \in BOOLEAN :
          IF exists
          THEN /\ pc' = "open"
               /\ UNCHANGED <<err, result>>
          ELSE /\ pc' = "returned"
               /\ err' = "notfound"
               /\ result' = <<>>
    /\ UNCHANGED <<file, outputCsv, content, offset, records, written, raw, tsStr>>

\* with open(filename, 'rb') as f: content = f.read(); offset = 0
ReadFile ==
    /\ pc = "open"
    /\ \E ok \in BOOLEAN :
          IF ok
          THEN /\ content' = file
               /\ offset' = 0
               /\ pc' = "scan"
               /\ UNCHANGED err
          ELSE /\ pc' = "except"
               /\ err' = "read"
               /\ UNCHANGED <<content, offset>>
    /\ UNCHANGED <<file, outputCsv, records, written, result, raw, tsStr>>

ScanIter ==
    /\ pc = "scan"
    /\ \E s \in {ScanStep(content, offset, records)} :
          /\ offset' = s.offset
          /\ records' = s.records
          /\ pc' = IF s.brk THEN "scanned" ELSE "scan"
    /\ UNCHANGED <<file, outputCsv, content, written, err, result, raw, tsStr>>

\* if output_csv and records: write the CSV
WriteCsv ==
    /\ pc = "scanned"
    /\ IF outputCsv /\ records # <<>>
       THEN \E ok \in BOOLEAN :
               IF ok
               THEN /\ written' = TRUE
                    /\ pc' = "return"
                    /\ UNCHANGED err
               ELSE /\ pc' = "except"
                    /\ err' = "csv"
                    /\ UNCHANGED written
       ELSE /\ pc' = "return"
            /\ UNCHANGED <<written, err>>
    /\ UNCHANGED <<file, outputCsv, content, offset, records, result, raw, tsStr>>

\* return records
Return ==
    /\ pc = "return"
    /\ result' = records
    /\ pc' = "returned"
    /\ UNCHANGED <<file, outputCsv, content, offset, records, written, err, raw, tsStr>>

\* except Exception as e: return []
Except ==
    /\ pc = "except"
    /\ result' = Handler(records)
    /\ pc' = "returned"
    /\ UNCHANGED <<file, outputCsv, content, offset, records, written, err, raw, tsStr>>

Next == Call \/ CheckExists \/ ReadFile \/ ScanIter \/ WriteCsv \/ Return \/ Except

Spec == Init /\ [][Next]_vars

\* The interpreter keeps running the call until it returns.
FairSpec == Init /\ [][Next]_vars /\ WF_vars(Next)

(***************************************************************************)
(* Reading the results back: the offset a record's hex string denotes, the *)
(* numbers a timestamp string shows, the calendar the claims speak of.     *)
(***************************************************************************)
HexDigitVal(c) == CHOOSE d \in 0..15 : DigitChars[d + 1] = c

RECURSIVE HexNum(_)
HexNum(s) ==
    IF s = <<>> THEN 0
    ELSE 16 * HexNum(SubSeq(s, 1, Len(s) - 1)) + HexDigitVal(s[Len(s)])

OffsetOf(r) == HexNum(SubSeq(r.Offset, 3, Len(r.Offset)))

Offsets(recs) == [i \in 1..Len(recs) |-> OffsetOf(recs[i])]

HasRecord(recs, j) == \E i \in 1..Len(recs) : OffsetOf(recs[i]) = j

RECURSIVE ReadNumbers(_, _, _)
ReadNumbers(s, p, cur) ==
    IF p > Len(s) THEN <<cur>>
    ELSE IF IsDigit(s[p]) THEN ReadNumbers(s, p + 1, 10 * cur + DigitVal(s[p]))
    ELSE <<cur>> \o ReadNumbers(s, p + 1, 0)

GregorianLeap(y) == IF y % 400 = 0 THEN TRUE ELSE IF y % 100 = 0 THEN FALSE ELSE y % 4 = 0

CalendarDays(y, m) ==
    <<31, IF GregorianLeap(y) THEN 29 ELSE 28, 31, 30, 31, 30, 31, 31, 30, 31, 30, 31>>[m]

RealTime(r) ==
    /\ r[2] \in 1..12
    /\ r[3] \in 1..CalendarDays(2000 + r[1], r[2])
    /\ r[4] \in 0..23
    /\ r[5] \in 0..59
    /\ r[6] \in 0..59

Positions0(buf) == 0..(Len(buf) - 1)

\* The buffer is k windows back to back, each starting with the marker and
\* holding no other whole marker inside its own 30 bytes.
BackToBack(buf) ==
    /\ Len(buf) % RecordSize = 0
    /\ \A i \in 0..(Len(buf) \div RecordSize - 1) :
          /\ MarkerAt(buf, RecordSize * i)
          /\ \A j \in (RecordSize * i + 1)..(RecordSize * i + RecordSize - Len(magic)) :
                ~MarkerAt(buf, j)

WindowStarts(buf) == [i \in 1..(Len(buf) \div RecordSize) |-> RecordSize * (i - 1)]

MarkersOnlyAtWindowStarts(buf) ==
    \A j \in Positions0(buf) : MarkerAt(buf, j) => j % RecordSize = 0

Overwrite(buf, at, bytes) ==
    [i \in 1..Len(buf) |->
        IF i - 1 >= at /\ i - 1 < at + Len(bytes) THEN bytes[i - at] ELSE buf[i]]

\* The buffers that differ from buf in the timestamp bytes of one matched window.
TsVariants(buf, recs) ==
    {Overwrite(buf, OffsetOf(recs[i]) + 16, tp) : i \in 1..Len(recs), tp \in TsPairs}

SameMarkers(a, b) ==
    /\ Len(a) = Len(b)
    /\ \A j \in Positions0(a) : MarkerAt(a, j) <=> MarkerAt(b, j)

(***************************************************************************)
(* The claims.                                                             *)
(***************************************************************************)

\* C1 as stated: a buffer of k back-to-back windows, none holding another
\* whole marker inside its own 30 bytes, scans to exactly k records with
\* offsets 0, 30, ..., 30(k-1).  (Fails: a marker may straddle two windows.)
C1_Original ==
    (pc = "scanned" /\ BackToBack(content))
        => Offsets(records) = WindowStarts(content)

\* C1 amended: a buffer of k back-to-back windows in which the marker occurs
\* at no offset other than the window starts 0, 30, ... scans to exactly k
\* records, the i-th with offset 30 i.
C1_BackToBackWindows ==
    (pc = "scanned" /\ BackToBack(content) /\ MarkersOnlyAtWindowStarts(content))
        => Offsets(records) = WindowStarts(content)

C1_Witness ==
    /\ pc = "scanned"
    /\ BackToBack(content)
    /\ MarkersOnlyAtWindowStarts(content)
    /\ Len(content) = 2 * RecordSize
    /\ Len(records) = 2

\* C2 as stated: after a match at idx, every marker occurrence at j with
\* idx < j < idx+30 and j+30 <= length also yields a record with offset j.
\* (Fails: the occurrence at idx+3, which shares the byte 0x28 with the
\* matched marker, lies before the new cursor idx+4.)
C2_Original ==
    pc = "scanned" =>
        \A i \in 1..Len(records) : \A j \in Positions0(content) :
            (/\ OffsetOf(records[i]) < j
             /\ j < OffsetOf(records[i]) + RecordSize
             /\ MarkerAt(content, j)
             /\ j + RecordSize <= Len(content))
                => HasRecord(records, j)

\* C2 amended: after a match at idx, every marker occurrence at j with
\* idx < j < idx+30 and j+30 <= length yields a record with offset j, except
\* exactly when it starts on the last byte of a matched marker (a record
\* with offset j-3 exists); then it is skipped.
C2_NoSkipBeyondMarker ==
    pc = "scanned" =>
        \A i \in 1..Len(records) : \A j \in Positions0(content) :
            (/\ OffsetOf(records[i]) < j
             /\ j < OffsetOf(records[i]) + RecordSize
             /\ MarkerAt(content, j)
             /\ j + RecordSize <= Len(content))
                => (HasRecord(records, j) <=> ~HasRecord(records, j - 3))

C2_Witness ==
    /\ pc = "scanned"
    /\ \E i \in 1..Len(records) : \E j \in Positions0(content) :
          /\ OffsetOf(records[i]) + Len(magic) < j
          /\ j < OffsetOf(records[i]) + RecordSize
          /\ MarkerAt(content, j)
          /\ HasRecord(records, j)
    /\ \E j \in Positions0(content) :
          /\ MarkerAt(content, j)
          /\ j + RecordSize <= Len(content)
          /\ HasRecord(records, j - 3)
          /\ ~HasRecord(records, j)

\* C3: every real calendar time decodes as valid: for raw bytes with any
\* year byte, a month in 1..12, a day of that month of year 2000+yy, an hour
\* in 0..23 and minute, second in 0..59, the decoded timestamp is not
\* "Invalid Date" and shows year 2000+yy and the other five components.
C3_AcceptsEveryRealTime ==
    (pc = "tsdone" /\ RealTime(raw)) =>
        /\ tsStr # InvalidDate
        /\ ReadNumbers(tsStr, 1, 0)
             = <<2000 + raw[1], raw[2], raw[3], raw[4], raw[5], raw[6]>>

\* C4: decoding is total and rejects every time that does not exist: the
\* result is always either "Invalid Date" or the formatted string, and it is
\* "Invalid Date" whenever month, day, hour, minute or second is out of
\* range for the calendar.
C4_RejectsEveryUnrealTime ==
    pc = "tsdone" =>
        /\ tsStr \in {InvalidDate, TsString(raw)}
        /\ ~RealTime(raw) => tsStr = InvalidDate

C4_Witness ==
    /\ pc = "tsdone"
    /\ raw[1] = 24 /\ raw[2] = 2 /\ raw[3] = 30
    /\ raw[4] \in 0..23 /\ raw[5] \in 0..59 /\ raw[6] \in 0..59
    /\ tsStr = InvalidDate

\* C5: every record is a full window of the buffer that starts with the
\* marker; so a buffer shorter than 30 bytes has no records and a marker
\* whose window is one byte short has no record.
C5_RecordsAreFullWindows ==
    /\ \A i \in 1..Len(records) :
          /\ Slice(content, OffsetOf(records[i]), OffsetOf(records[i]) + Len(magic)) = magic
          /\ OffsetOf(records[i]) + RecordSize <= Len(content)
    /\ Len(content) < RecordSize => records = <<>>
    /\ \A j \in Positions0(content) :
          (MarkerAt(content, j) /\ j + RecordSize = Len(content) + 1)
              => ~HasRecord(records, j)

C5_Witness ==
    /\ pc = "scanned"
    /\ records # <<>>
    /\ \E j \in Positions0(content) :
          /\ MarkerAt(content, j)
          /\ j + RecordSize = Len(content) + 1
          /\ ~HasRecord(records, j)

\* C6: in every state of the scan and in the returned list the record
\* offsets are strictly increasing in list order.
C6_OffsetsStrictlyIncrease ==
    /\ \A i \in 1..(Len(records) - 1) :
          OffsetOf(records[i]) < OffsetOf(records[i + 1])
    /\ \A i \in 1..(Len(result) - 1) :
          OffsetOf(result[i]) < OffsetOf(result[i + 1])

C6_Witness ==
    /\ pc = "scan"
    /\ Len(records) >= 3

\* C7: two buffers of equal length with the marker at the same offsets that
\* differ only in timestamp bytes of a matched window scan to records at the
\* same offsets, whether the timestamps decode or not.
C7_InvalidTimestampsKeepRecords ==
    pc = "scanned" =>
        \A alt \in TsVariants(content, records) :
            SameMarkers(alt, content)
                => Offsets(ScanFrom(alt, 0, <<>>)) = Offsets(records)

C7_Witness ==
    /\ pc = "scanned"
    /\ \E i \in 1..Len(records) : \E alt \in TsVariants(content, records) :
          /\ SameMarkers(alt, content)
          /\ records[i].StartTime = InvalidDate
          /\ Len(ScanFrom(alt, 0, <<>>)) = Len(records)
          /\ ScanFrom(alt, 0, <<>>)[i].StartTime # InvalidDate

\* C8 as stated: with the marker at p and at p+4 and p+4+30 <= length, the
\* output has a record with offset p and one with offset p+4.  (Fails when
\* the marker also occurs at p-3 and is matched there.)
C8_Original ==
    pc = "scanned" =>
        \A p \in Positions0(content) :
            (/\ MarkerAt(content, p)
             /\ MarkerAt(content, p + 4)
             /\ p + 4 + RecordSize <= Len(content))
                => HasRecord(records, p) /\ HasRecord(records, p + 4)

\* C8 amended: with the marker at p and at p+4, p+4+30 <= length, and the
\* marker at p not starting on the last byte of a matched marker (no record
\* with offset p-3), the output has a record with offset p and one with
\* offset p+4, whose 30-byte ranges overlap.
C8_OverlappingWindowsReported ==
    pc = "scanned" =>
        \A p \in Positions0(content) :
            (/\ MarkerAt(content, p)
             /\ MarkerAt(content, p + 4)
             /\ p + 4 + RecordSize <= Len(content)
             /\ ~HasRecord(records, p - 3))
                => HasRecord(records, p) /\ HasRecord(records, p + 4)

C8_Witness ==
    /\ pc = "scanned"
    /\ \E p \in Positions0(content) :
          /\ MarkerAt(content, p)
          /\ MarkerAt(content, p + 4)
          /\ p + 4 + RecordSize <= Len(content)
          /\ HasRecord(records, p)
          /\ HasRecord(records, p + 4)

\* C9: the scan terminates: once the loop is entered it is eventually left;
\* every iteration that stays in the loop moves the cursor strictly forward;
\* and the loop is left exactly when no marker is found at or after the
\* cursor or the marker found has fewer than 30 bytes left.
C9_ScanTerminates ==
    /\ [](pc = "scan" => <>(pc = "scanned"))
    /\ [][(pc = "scan" /\ pc' = "scan") => offset' > offset]_vars
    /\ [][pc = "scan" =>
            ((pc' = "scanned")
                <=> (\/ \A j \in offset..(Len(content) - 1) : ~MarkerAt(content, j)
                     \/ \E j \in offset..(Len(content) - 1) :
                           /\ MarkerAt(content, j)
                           /\ \A h \in offset..(j - 1) : ~MarkerAt(content, h)
                           /\ Len(content) - j < RecordSize))]_vars

C9_Witness ==
    /\ pc = "scanned"
    /\ Len(records) >= 2
    /\ \E j \in offset..(Len(content) - 1) : MarkerAt(content, j)

\* C10: the call always returns and its result is all or nothing: the empty
\* list when the file is missing or a step raised, the complete list of the
\* scan otherwise.
C10_AllOrNothing ==
    /\ pc = "except" => err # "none"
    /\ pc = "returned" =>
          /\ err # "none" => result = <<>>
          /\ err = "none" => result = ScanFrom(file, 0, <<>>)

C10_Witness ==
    /\ pc = "returned"
    /\ err = "csv"
    /\ Len(records) >= 2
    /\ result = <<>>

====
